---- MODULE Spec2Model ----
(***************************************************************************)
(* Model of src/src/gluster.rs: the Gluster connection wrapper over the    *)
(* native glfs API.  The native layer (glfs_*, strerror) is the            *)
(* environment: its return values are inputs chosen with \E.  Every        *)
(* wrapper is one action; `last` records the inputs of the most recent     *)
(* call, the native calls it made (in order) and the value it returned.    *)
(***************************************************************************)
EXTENDS Integers, Sequences, FiniteSets, TLC

\* ---- bounds ----
MaxLen == 2        \* longest text argument, in bytes
MaxConns == 1      \* Gluster values that connect may produce
MaxHandles == 1    \* non-null handles glfs_new may hand out
MaxFds == 1        \* descriptors the native layer may have open at once
MaxBufs == 2       \* buffers in one vectorized call
MaxBufSize == 1    \* largest buffer of a vectorized call

NULL == 0

Bytes == {0, 97}
\* the &str / String arguments (Rust strings may hold a NUL byte)
Paths == UNION {[1..n -> Bytes] : n \in 0..MaxLen}

\* values a native call returns; all lie in the i32 range, where the
\* `as i32` casts of the failure paths keep the value
NativeRets == {-13, -2, -1, 0, 3}

\* the slices handed to readv/writev/preadv/pwritev, by buffer length
IovSizes == UNION {[1..n -> 0..MaxBufSize] : n \in 0..MaxBufs}

VARIABLES
    conns,      \* the Gluster values: [st, cluster_handle]
    nextHandle, \* next pointer glfs_new hands out
    finiCount,  \* per cluster handle: how often glfs_fini was called on it
    fdOwner,    \* per descriptor: whether it is open, and on which cluster handle
    errbuf,     \* owner of the buffer strerror returns
    aborted,    \* the allocator aborted the process
    last        \* the most recent call

vars == <<conns, nextHandle, finiCount, fdOwner, errbuf, aborted, last>>

NoOwner == [open |-> FALSE, h |-> NULL]
OwnedBy(h) == [open |-> TRUE, h |-> h]
NoPath == <<>>

\* ---- values ----
NoRes == [tag |-> "None", kind |-> "none", val |-> 0, msg |-> [text |-> "", n |-> 0],
          pos |-> 0, bytes |-> <<>>]
Ok(v) == [NoRes EXCEPT !.tag = "Ok", !.val = v]
ErrError(m) == [NoRes EXCEPT !.tag = "Err", !.kind = "Error", !.msg = m]
ErrIntoString == [NoRes EXCEPT !.tag = "Err", !.kind = "IntoStringError"]
ErrNul(p, b) == [NoRes EXCEPT !.tag = "Err", !.kind = "NulError", !.pos = p, !.bytes = b]

Call(fn, h, fd, p1, p2, iov, cnt) ==
    [fn |-> fn, h |-> h, fd |-> fd, p1 |-> p1, p2 |-> p2, iov |-> iov, cnt |-> cnt]

NoLast == [op |-> "none", h |-> NULL, fd |-> NULL, p1 |-> NoPath, p2 |-> NoPath,
           sizes |-> <<>>, ret |-> 0, calls |-> <<>>, res |-> NoRes]

\* ---- platform: strerror ----
Garbage == [text |-> "garbage", n |-> 0]

StrError(n) ==
    CASE n = 0 -> [text |-> "Success", n |-> 0]
      [] n = 1 -> [text |-> "Operation not permitted", n |-> 0]
      [] n = 2 -> [text |-> "No such file or directory", n |-> 0]
      [] n = 13 -> [text |-> "Permission denied", n |-> 0]
      [] OTHER -> [text |-> "Unknown error", n |-> n]

\* ---- CString::new ----
HasNul(b) == \E i \in DOMAIN b : b[i] = 0
NulPos(b) == (CHOOSE i \in DOMAIN b : b[i] = 0 /\ \A j \in 1..(i-1) : b[j] # 0) - 1

\* a CString::new that lets an interior NUL through
CString_new_unchecked(b) == [NoRes EXCEPT !.tag = "Ok", !.bytes = b \o <<0>>]

CString_new(b) ==
    IF HasNul(b) THEN ErrNul(NulPos(b), b)
    ELSE [NoRes EXCEPT !.tag = "Ok", !.bytes = b \o <<0>>]

\* ---- get_error, and the failure path of every wrapper ----
\* utf8: whether the platform's description decodes; g: what a read of the
\* buffer yields once it has been freed
get_error(n, utf8, g) ==
    LET message == IF errbuf = "freed" /\ g THEN Garbage ELSE StrError(n)
    IN IF utf8 THEN [NoRes EXCEPT !.tag = "Ok", !.msg = message] ELSE ErrIntoString

Fail(n, utf8, g) ==
    LET e == get_error(n, utf8, g)
    IN IF e.tag = "Ok" THEN ErrError(e.msg) ELSE e

\* the return-code test, and the same test taking 0 for a failure too
IsFailureOrZero(r) == r <= 0

IsFailure(r) == r < 0

Init ==
    /\ conns = [c \in 1..MaxConns |-> [st |-> "unborn", cluster_handle |-> NULL]]
    /\ nextHandle = 1
    /\ finiCount = [h \in 0..MaxHandles |-> 0]
    /\ fdOwner = [f \in 1..MaxFds |-> NoOwner]
    /\ errbuf = "platform"
    /\ aborted = FALSE
    /\ last = NoLast

\* ---- Drop for Gluster: the native calls the cleanup makes ----
\* (DropNoCheck: the cleanup without its is_null test)
DropNoCheck(h) == <<Call("glfs_fini", h, NULL, NoPath, NoPath, <<>>, 0)>>

Drop(h) ==
    IF h = NULL THEN <<>>
    ELSE <<Call("glfs_fini", h, NULL, NoPath, NoPath, <<>>, 0)>>

\* the body of disconnect, before `self` goes out of scope
disconnect_body(h) ==
    IF h = NULL THEN <<>>
    ELSE <<Call("glfs_fini", h, NULL, NoPath, NoPath, <<>>, 0)>>

\* glfs_fini calls counted onto finiCount
RECURSIVE Released(_, _)
Released(fc, calls) ==
    IF calls = <<>> THEN fc
    ELSE Released([fc EXCEPT ![Head(calls).h] = @ + 1], Tail(calls))

\* the failure path leaves the platform's buffer owned by a Rust value
TakeBuffer(failed) == IF failed THEN "rust" ELSE errbuf

Live(c) == conns[c].st = "live"

connect ==
    \E vol \in Paths :
      LET vol_name == CString_new(vol) IN
      IF vol_name.tag = "Err"
      THEN /\ last' = [NoLast EXCEPT !.op = "connect", !.p1 = vol, !.res = vol_name]
           /\ UNCHANGED <<conns, nextHandle, finiCount, fdOwner, errbuf, aborted>>
      ELSE \E h \in {NULL} \cup (IF nextHandle <= MaxHandles THEN {nextHandle} ELSE {}),
              ret_code \in NativeRets, utf8 \in BOOLEAN,
              g \in (IF errbuf = "freed" THEN BOOLEAN ELSE {FALSE}) :
             LET calls == <<Call("glfs_new", NULL, NULL, vol_name.bytes, NoPath, <<>>, 0),
                            Call("glfs_init", h, NULL, NoPath, NoPath, <<>>, 0)>>
                 base == [NoLast EXCEPT !.op = "connect", !.p1 = vol, !.h = h,
                                        !.ret = ret_code, !.calls = calls]
             IN /\ nextHandle' = IF h = NULL THEN nextHandle ELSE nextHandle + 1
                /\ IF IsFailure(ret_code)
                   THEN /\ last' = [base EXCEPT !.res = Fail(ret_code, utf8, g)]
                        /\ errbuf' = TakeBuffer(TRUE)
                        /\ UNCHANGED conns
                   ELSE /\ utf8 /\ ~g
                        /\ \E c \in 1..MaxConns :
                             /\ conns[c].st = "unborn"
                             /\ \A d \in 1..(c-1) : conns[d].st # "unborn"
                             /\ conns' = [conns EXCEPT ![c] = [st |-> "live", cluster_handle |-> h]]
                        /\ last' = [base EXCEPT !.res = Ok(h)]
                        /\ UNCHANGED errbuf
                /\ UNCHANGED <<finiCount, fdOwner, aborted>>

disconnect ==
    \E c \in 1..MaxConns :
      /\ Live(c)
      /\ LET h == conns[c].cluster_handle
             calls == disconnect_body(h) \o Drop(h)
         IN /\ finiCount' = Released(finiCount, calls)
            /\ last' = [NoLast EXCEPT !.op = "disconnect", !.h = h, !.calls = calls,
                                      !.res = Ok(0)]
      /\ conns' = [conns EXCEPT ![c].st = "gone"]
      /\ UNCHANGED <<nextHandle, fdOwner, errbuf, aborted>>

\* the Gluster value goes out of scope without disconnect
drop ==
    \E c \in 1..MaxConns :
      /\ Live(c)
      /\ LET h == conns[c].cluster_handle
             calls == Drop(h)
         IN /\ finiCount' = Released(finiCount, calls)
            /\ last' = [NoLast EXCEPT !.op = "drop", !.h = h, !.calls = calls, !.res = Ok(0)]
      /\ conns' = [conns EXCEPT ![c].st = "gone"]
      /\ UNCHANGED <<nextHandle, fdOwner, errbuf, aborted>>

\* ---- the wrappers, by shape ----
OpenOps == {"open", "create", "opendir"}
PathOps == {"truncate", "lsstat", "stat", "access", "readlink", "mknod", "mkdir",
            "unlink", "rmdir"}
TwoPathOps == {"symlink", "rename", "link"}
FdOps == {"close", "ftruncate", "fstat", "fsync", "fdatasync"}
RwOps == {"read", "write", "pread", "pwrite", "lseek"}
VecOps == {"readv", "writev", "preadv", "pwritev"}

NativeOf(op) ==
    CASE op = "open" -> "glfs_open"
      [] op = "create" -> "glfs_creat"
      [] op = "lsstat" -> "glfs_lstat"
      [] OTHER -> "glfs_" \o op

\* descriptors the native layer can return: NULL, or one that is not open
FreshFds == {NULL} \cup {f \in 1..MaxFds : ~fdOwner[f].open}

\* open, create, opendir: the descriptor is returned as it comes
OpenOp ==
    \E op \in OpenOps, c \in 1..MaxConns, path \in Paths :
      /\ Live(c)
      /\ LET cpath == CString_new(path)
             h == conns[c].cluster_handle
             base == [NoLast EXCEPT !.op = op, !.h = h, !.p1 = path]
         IN IF cpath.tag = "Err"
            THEN /\ last' = [base EXCEPT !.res = cpath]
                 /\ UNCHANGED fdOwner
            ELSE \E file_handle \in FreshFds :
                   /\ last' = [base EXCEPT !.fd = file_handle, !.res = Ok(file_handle),
                                  !.calls = <<Call(NativeOf(op), h, NULL, cpath.bytes,
                                                   NoPath, <<>>, 0)>>]
                   /\ fdOwner' = IF file_handle = NULL THEN fdOwner
                                 ELSE [fdOwner EXCEPT ![file_handle] = OwnedBy(h)]
      /\ UNCHANGED <<conns, nextHandle, finiCount, errbuf, aborted>>

\* the check every return-code wrapper makes on the native result
Checked(base, ret, utf8, g) ==
    IF IsFailure(ret) THEN [base EXCEPT !.ret = ret, !.res = Fail(ret, utf8, g)]
    ELSE [base EXCEPT !.ret = ret, !.res = Ok(IF base.op \in RwOps \cup VecOps THEN ret ELSE 0)]

\* what the environment may answer: a return value, and (on the failure
\* path only) how the description reads
Answers == {a \in [ret : NativeRets, utf8 : BOOLEAN, g : BOOLEAN] :
              /\ a.g => errbuf = "freed"
              /\ ~IsFailure(a.ret) => (a.utf8 /\ ~a.g)}

PathOp ==
    \E op \in PathOps, c \in 1..MaxConns, path \in Paths :
      /\ Live(c)
      /\ LET cpath == CString_new(path)
             h == conns[c].cluster_handle
             base == [NoLast EXCEPT !.op = op, !.h = h, !.p1 = path]
         IN IF cpath.tag = "Err"
            THEN /\ last' = [base EXCEPT !.res = cpath]
                 /\ UNCHANGED errbuf
            ELSE \E a \in Answers :
                   /\ last' = Checked([base EXCEPT !.calls =
                                  <<Call(NativeOf(op), h, NULL, cpath.bytes, NoPath, <<>>, 0)>>],
                                  a.ret, a.utf8, a.g)
                   /\ errbuf' = TakeBuffer(IsFailure(a.ret))
      /\ UNCHANGED <<conns, nextHandle, finiCount, fdOwner, aborted>>

TwoPathOp ==
    \E op \in TwoPathOps, c \in 1..MaxConns, oldpath \in Paths, newpath \in Paths :
      /\ Live(c)
      /\ LET old_path == CString_new(oldpath)
             new_path == CString_new(newpath)
             h == conns[c].cluster_handle
             base == [NoLast EXCEPT !.op = op, !.h = h, !.p1 = oldpath, !.p2 = newpath]
         IN IF old_path.tag = "Err"
            THEN /\ last' = [base EXCEPT !.res = old_path]
                 /\ UNCHANGED errbuf
            ELSE IF new_path.tag = "Err"
            THEN /\ last' = [base EXCEPT !.res = new_path]
                 /\ UNCHANGED errbuf
            ELSE \E a \in Answers :
                   /\ last' = Checked([base EXCEPT !.calls =
                                  <<Call(NativeOf(op), h, NULL, old_path.bytes,
                                         new_path.bytes, <<>>, 0)>>],
                                  a.ret, a.utf8, a.g)
                   /\ errbuf' = TakeBuffer(IsFailure(a.ret))
      /\ UNCHANGED <<conns, nextHandle, finiCount, fdOwner, aborted>>

\* descriptors a caller holds: those open/create/opendir returned and
\* glfs_close has not closed.  No wrapper asks for the Gluster value.
HeldFds == {f \in 1..MaxFds : fdOwner[f].open}

FdOp ==
    \E op \in FdOps, file_handle \in HeldFds, a \in Answers :
      /\ last' = Checked([NoLast EXCEPT !.op = op, !.fd = file_handle,
                             !.h = fdOwner[file_handle].h, !.calls =
                             <<Call(NativeOf(op), fdOwner[file_handle].h, file_handle,
                                    NoPath, NoPath, <<>>, 0)>>],
                         a.ret, a.utf8, a.g)
      /\ errbuf' = TakeBuffer(IsFailure(a.ret))
      /\ fdOwner' = IF op = "close" /\ ~IsFailure(a.ret)
                    THEN [fdOwner EXCEPT ![file_handle] = NoOwner] ELSE fdOwner
      /\ UNCHANGED <<conns, nextHandle, finiCount, aborted>>

\* read, write, pread, pwrite, lseek: the native result is the success value
RwOp ==
    \E op \in RwOps, file_handle \in HeldFds, a \in Answers :
      /\ last' = Checked([NoLast EXCEPT !.op = op, !.fd = file_handle,
                             !.h = fdOwner[file_handle].h, !.calls =
                             <<Call(NativeOf(op), fdOwner[file_handle].h, file_handle,
                                    NoPath, NoPath, <<>>, 0)>>],
                         a.ret, a.utf8, a.g)
      /\ errbuf' = TakeBuffer(IsFailure(a.ret))
      /\ UNCHANGED <<conns, nextHandle, finiCount, fdOwner, aborted>>

\* ---- vectorized I/O ----
\* address of the caller's i-th buffer
BufAddr(i) == 4096 * i

\* the memory behind `iov.as_ptr()`: one (data pointer, length) pair of
\* words per `&[u8]` element, elements in slice order
\* (SliceWordsSwapped: the pair laid out length first)
SliceWordsSwapped(sizes) ==
    [k \in 1..(2 * Len(sizes)) |->
        IF k % 2 = 1 THEN sizes[(k + 1) \div 2] ELSE BufAddr(k \div 2)]

SliceWords(sizes) ==
    [k \in 1..(2 * Len(sizes)) |->
        IF k % 2 = 1 THEN BufAddr((k + 1) \div 2) ELSE sizes[k \div 2]]

\* `as *const iovec`: the native layer reads cnt structs {iov_base, iov_len}
Iovecs(words, cnt) ==
    [i \in 1..cnt |-> [iov_base |-> words[2 * i - 1], iov_len |-> words[2 * i]]]

VecOp ==
    \E op \in VecOps, file_handle \in HeldFds, sizes \in IovSizes, a \in Answers :
      /\ last' = Checked([NoLast EXCEPT !.op = op, !.fd = file_handle,
                             !.h = fdOwner[file_handle].h, !.sizes = sizes, !.calls =
                             <<Call(NativeOf(op), fdOwner[file_handle].h, file_handle,
                                    NoPath, NoPath, SliceWords(sizes), Len(sizes))>>],
                         a.ret, a.utf8, a.g)
      /\ errbuf' = TakeBuffer(IsFailure(a.ret))
      /\ UNCHANGED <<conns, nextHandle, finiCount, fdOwner, aborted>>

\* ---- the caller drops a GlusterError ----
\* The String (or CString) in it was built by CString::from_raw on the
\* pointer strerror returned, so dropping it hands that pointer to the
\* allocator: the process aborts, or goes on with the buffer freed.
DropError ==
    /\ errbuf = "rust"
    /\ \E abort \in BOOLEAN :
         /\ aborted' = abort
         /\ errbuf' = IF abort THEN errbuf ELSE "freed"
    /\ UNCHANGED <<conns, nextHandle, finiCount, fdOwner, last>>

\* the call has returned: the caller goes on to its next call
Resume ==
    /\ last # NoLast
    /\ last' = NoLast
    /\ UNCHANGED <<conns, nextHandle, finiCount, fdOwner, errbuf, aborted>>

\* calls are synchronous: one at a time, and none once the process is gone
Running == ~aborted /\ last = NoLast

Next ==
    \/ Running /\ connect
    \/ Running /\ disconnect
    \/ Running /\ drop
    \/ Running /\ OpenOp
    \/ Running /\ PathOp
    \/ Running /\ TwoPathOp
    \/ Running /\ FdOp
    \/ Running /\ RwOp
    \/ Running /\ VecOp
    \/ Running /\ DropError
    \/ ~aborted /\ Resume

Spec == Init /\ [][Next]_vars

TypeOK ==
    /\ nextHandle \in 1..(MaxHandles + 1)
    /\ errbuf \in {"platform", "rust", "freed"}
    /\ aborted \in BOOLEAN
    /\ \A c \in 1..MaxConns : conns[c].st \in {"unborn", "live", "gone"}
    /\ \A f \in 1..MaxFds : fdOwner[f].open \in BOOLEAN /\ fdOwner[f].h \in 0..MaxHandles

\* ---- properties ----
Handles == 1..MaxHandles
Conns == 1..MaxConns
TextOps == {"connect"} \cup OpenOps \cup PathOps \cup TwoPathOps
Called == last.calls # <<>>

\* C1: every non-null handle of a Gluster value that has gone away
\* (by disconnect or by drop) was passed to glfs_fini exactly once.
ReleasedExactlyOnce ==
    \A c \in Conns :
      (conns[c].st = "gone" /\ conns[c].cluster_handle # NULL)
        => finiCount[conns[c].cluster_handle] = 1

\* C2: a wrapper whose native call returned the negative code c returns
\* Err, and when the description decodes its message is the platform's
\* description of errno -c.
NegativeCodeMessage ==
    (Called /\ last.ret < 0)
      => /\ last.res.tag = "Err"
         /\ last.res.kind = "Error" => last.res.msg = StrError(-last.ret)

\* C3: open, create and opendir never return Ok with a null descriptor.
NullDescriptorIsError ==
    (last.op \in OpenOps /\ Called /\ last.fd = NULL) => last.res.tag = "Err"

\* C4: a text argument with a NUL byte makes the call return NulError for
\* the first such argument, in argument order, without any native call.
FirstBad == IF HasNul(last.p1) THEN last.p1 ELSE last.p2

NulRejectedBeforeNative ==
    (last.op \in TextOps /\ (HasNul(last.p1) \/ HasNul(last.p2)))
      => /\ last.calls = <<>>
         /\ last.res.tag = "Err"
         /\ last.res.kind = "NulError"
         /\ last.res.bytes = FirstBad
         /\ last.res.pos = NulPos(FirstBad)

NulRejectedWitness ==
    /\ last.op \in TwoPathOps
    /\ HasNul(last.p1) /\ HasNul(last.p2) /\ last.p1 # last.p2
    /\ last.res.kind = "NulError"

\* C5: no native call other than glfs_fini is made on a cluster handle
\* (directly, or through a descriptor opened on it) that has been released.
NoCallAfterRelease ==
    \A i \in DOMAIN last.calls :
      last.calls[i].fn # "glfs_fini" => finiCount[last.calls[i].h] = 0

\* C6: disconnect and drop of a Gluster value whose handle is null make no
\* native call and return normally; glfs_fini never sees the null handle.
NullHandleNoRelease ==
    /\ finiCount[NULL] = 0
    /\ (last.op \in {"disconnect", "drop"} /\ last.h = NULL)
         => (last.calls = <<>> /\ last.res = Ok(0))

NullHandleWitness ==
    /\ last.op = "disconnect"
    /\ last.h = NULL
    /\ \E c \in Conns : conns[c].st = "gone" /\ conns[c].cluster_handle = NULL

\* C7: read, write, readv, writev, pread, pwrite, preadv, pwritev and lseek
\* return Err when the native result is negative and Ok of exactly the
\* native result otherwise, so an Ok value is never negative.
SizeResult ==
    (last.op \in RwOps \cup VecOps)
      => /\ last.ret < 0 => last.res.tag = "Err"
         /\ last.ret >= 0 => last.res = Ok(last.ret)
         /\ last.res.tag = "Ok" => last.res.val >= 0

SizeResultWitness ==
    /\ last.op = "lseek"
    /\ last.ret = 0
    /\ last.res = Ok(0)

NoHandleLeak ==
    \A h \in Handles :
      (h < nextHandle /\ finiCount[h] = 0)
        => \E c \in Conns : Live(c) /\ conns[c].cluster_handle = h

\* C10: the buffer strerror returns stays the platform's: no wrapper takes
\* ownership of it or frees it.
PlatformBufferIntact == errbuf = "platform"

====
